---- MODULE Spec2Model ----
(***************************************************************************)
(* rfinancial: time-value-of-money formulas (fv, pv, pmt, nper, ipmt,      *)
(* ppmt, npv, irr, mirr, rate).  Every formula object is an immutable      *)
(* bundle of fields with one evaluation, get().  The two iterative solvers *)
(* (irr's find_root and rate) are modelled one loop pass per step; the     *)
(* closed-form formulas are one step each.                                 *)
(*                                                                         *)
(* f64 is modelled as a decimal fixed-point format with the IEEE-754       *)
(* special values: a finite number is an integer count of 1/SCALE, finite  *)
(* results are rounded to nearest (ties to even) and a finite result       *)
(* larger than MaxFin overflows to an infinity, as an f64 result larger    *)
(* than f64::MAX does.  There is one zero (no negative zero).              *)
(***************************************************************************)
EXTENDS Integers, Sequences, FiniteSets, TLC

\* ------------------------------------------------------------------ f64

\* Units per 1.0, and the largest finite magnitude, in units.
SCALE == 10^6
MaxFin == 10^9
LIMB == 10^3

Fin(n) == [c |-> "fin", v |-> n]
NaN == [c |-> "nan", v |-> 0]
PInf == [c |-> "pinf", v |-> 0]
NInf == [c |-> "ninf", v |-> 0]
\* The f64 of an integer literal, and of a decimal literal n/d.
Num(i) == Fin(i * SCALE)
Dec(n, d) == Fin((n * SCALE) \div d)
Zero == Fin(0)
One == Fin(SCALE)

IsNaN(a) == a.c = "nan"
IsFin(a) == a.c = "fin"
IsInf(a) == a.c = "pinf" \/ a.c = "ninf"
IsZero(a) == a.c = "fin" /\ a.v = 0

IAbs(n) == IF n < 0 THEN -n ELSE n
\* Sign of a non-NaN number: -1, 0 or 1.
Sgn(a) == IF a.c = "pinf" THEN 1 ELSE IF a.c = "ninf" THEN -1 ELSE IF a.v > 0 THEN 1 ELSE IF a.v < 0 THEN -1 ELSE 0
Signed(s, a) == IF s >= 0 THEN a ELSE IF a.c = "pinf" THEN NInf ELSE IF a.c = "ninf" THEN PInf ELSE Fin(-a.v)
\* A finite result, or the infinity it overflows to.
Overflow(n) == IF n > MaxFin THEN PInf ELSE IF n < -MaxFin THEN NInf ELSE Fin(n)
\* Round q (with remainder rem of a division by den) to nearest, ties to even.
RoundUp(q, rem, den) == IF 2 * rem > den \/ (2 * rem = den /\ q % 2 = 1) THEN q + 1 ELSE q

FNeg(a) == IF a.c = "nan" THEN NaN ELSE Signed(-1, a)
FAbs(a) == IF a.c = "nan" THEN NaN ELSE IF a.c = "fin" THEN Fin(IAbs(a.v)) ELSE PInf

FAdd(a, b) ==
    IF a.c = "nan" \/ b.c = "nan" THEN NaN
    ELSE IF a.c = "fin" /\ b.c = "fin" THEN Overflow(a.v + b.v)
    ELSE IF a.c = "fin" THEN b
    ELSE IF b.c = "fin" THEN a
    ELSE IF a.c = b.c THEN a ELSE NaN

FSub(a, b) == FAdd(a, FNeg(b))

\* round(a*b/SCALE) of magnitudes a, b <= MaxFin, by limbs of 3 digits so that no
\* partial sum leaves 32 bits; PInf when the product exceeds MaxFin.
MulMag(a, b) ==
    LET a0 == a % LIMB
        a1 == (a \div LIMB) % LIMB
        a2 == a \div SCALE
        b0 == b % LIMB
        b1 == (b \div LIMB) % LIMB
        b2 == b \div SCALE
        low == a0 * b0 + (a0 * b1 + a1 * b0) * LIMB
        mid == a0 * b2 + a1 * b1 + a2 * b0
        top == a2 * b2 * LIMB + (a1 * b2 + a2 * b1)
    IN  IF top > MaxFin \div LIMB THEN PInf
        ELSE Overflow(RoundUp(top * LIMB + mid + (low \div SCALE), low % SCALE, SCALE))

FMul(a, b) ==
    IF a.c = "nan" \/ b.c = "nan" THEN NaN
    ELSE IF IsInf(a) \/ IsInf(b)
         THEN IF Sgn(a) = 0 \/ Sgn(b) = 0 THEN NaN ELSE Signed(Sgn(a) * Sgn(b), PInf)
    ELSE Signed(Sgn(a) * Sgn(b), MulMag(IAbs(a.v), IAbs(b.v)))

\* One decimal digit of a long division: <<(10*r) div b, (10*r) mod b>> for
\* 0 <= r < b <= MaxFin, by doubling where 10*r would leave 32 bits.
Dbl(p, b) == IF 2 * p[2] >= b THEN <<2 * p[1] + 1, 2 * p[2] - b>> ELSE <<2 * p[1], 2 * p[2]>>
AddR(p, r, b) == IF p[2] + r >= b THEN <<p[1] + 1, p[2] + r - b>> ELSE <<p[1], p[2] + r>>
Times10(r, b) ==
    IF r <= 2 * 10^8 THEN <<(10 * r) \div b, (10 * r) % b>>
    ELSE Dbl(AddR(Dbl(Dbl(<<0, r>>, b), b), r, b), b)

RECURSIVE LongDiv(_, _, _, _)
LongDiv(q, r, b, k) ==
    IF k = 0 THEN RoundUp(q, r, b)
    ELSE LET t == Times10(r, b) IN LongDiv(10 * q + t[1], t[2], b, k - 1)

\* round(a*SCALE/b) of magnitudes a <= MaxFin, 0 < b <= MaxFin.
DivMag(a, b) ==
    IF a \div b > MaxFin \div SCALE THEN PInf
    ELSE Overflow(LongDiv(a \div b, a % b, b, 6))

FDiv(a, b) ==
    IF a.c = "nan" \/ b.c = "nan" THEN NaN
    ELSE IF IsInf(a) THEN (IF IsInf(b) THEN NaN ELSE Signed(Sgn(a) * (IF Sgn(b) < 0 THEN -1 ELSE 1), PInf))
    ELSE IF IsInf(b) THEN Zero
    ELSE IF b.v = 0 THEN (IF a.v = 0 THEN NaN ELSE Signed(Sgn(a), PInf))
    ELSE Signed(Sgn(a) * Sgn(b), DivMag(IAbs(a.v), IAbs(b.v)))

\* Comparisons: every comparison with a NaN is false.
Key(a) == IF a.c = "pinf" THEN MaxFin + 1 ELSE IF a.c = "ninf" THEN -MaxFin - 1 ELSE a.v
FLe(a, b) == a.c # "nan" /\ b.c # "nan" /\ Key(a) <= Key(b)
FLt(a, b) == a.c # "nan" /\ b.c # "nan" /\ Key(a) < Key(b)
FEq(a, b) == a.c # "nan" /\ b.c # "nan" /\ Key(a) = Key(b)
FNe(a, b) == ~FEq(a, b)

\* f64::powf with an integral exponent p.
RECURSIVE FPowI(_, _)
FPowI(x, p) ==
    IF p = 0 THEN One
    ELSE IF p < 0 THEN FDiv(One, FPowI(x, -p))
    ELSE IF p = 1 THEN x
    ELSE FMul(FPowI(x, p - 1), x)

\* ln 2, to the format's resolution.
LN2 == Fin(693147)

\* The k with 2^k <= n < 2^(k+1), for an integer n >= 1.
RECURSIVE Log2Floor(_)
Log2Floor(n) == IF n < 2 THEN 0 ELSE 1 + Log2Floor(n \div 2)

\* ln of a finite m in [1, 2): 2*atanh((m-1)/(m+1)), seven terms of the series.
LnSeries(z, w) ==
    LET h6 == Dec(1, 13)
        h5 == FAdd(Dec(1, 11), FMul(w, h6))
        h4 == FAdd(Dec(1, 9), FMul(w, h5))
        h3 == FAdd(Dec(1, 7), FMul(w, h4))
        h2 == FAdd(Dec(1, 5), FMul(w, h3))
        h1 == FAdd(Dec(1, 3), FMul(w, h2))
    IN  FMul(Num(2), FMul(z, FAdd(One, FMul(w, h1))))
LnAtanh(z) == LnSeries(z, FMul(z, z))
LnMantissa(m) == LnAtanh(FDiv(FSub(m, One), FAdd(m, One)))

\* f64::ln: NaN below zero, -inf at zero; a = m * 2^k with m in [1, 2) otherwise.
FLn(a) ==
    IF a.c = "nan" \/ a.c = "ninf" THEN NaN
    ELSE IF a.c = "pinf" THEN PInf
    ELSE IF a.v < 0 THEN NaN
    ELSE IF a.v = 0 THEN NInf
    ELSE IF a.v >= SCALE
         THEN LET k == Log2Floor(a.v \div SCALE)
                  m == Fin(RoundUp(a.v \div 2^k, a.v % 2^k, 2^k))
              IN  FAdd(FMul(Num(k), LN2), LnMantissa(m))
         ELSE LET k == Log2Floor((SCALE - 1) \div a.v) + 1
                  m == Fin(a.v * 2^k)
              IN  IF m.v >= 2 * SCALE
                  THEN FAdd(FMul(Num(1 - k), LN2), LnMantissa(Fin(a.v * 2^(k - 1))))
                  ELSE FAdd(FMul(Num(-k), LN2), LnMantissa(m))

\* e^r for |r| <= ln(2)/2, ten terms of the series.
ExpSmall(r) ==
    LET t9 == FAdd(One, FDiv(r, Num(9)))
        t8 == FAdd(One, FMul(FDiv(r, Num(8)), t9))
        t7 == FAdd(One, FMul(FDiv(r, Num(7)), t8))
        t6 == FAdd(One, FMul(FDiv(r, Num(6)), t7))
        t5 == FAdd(One, FMul(FDiv(r, Num(5)), t6))
        t4 == FAdd(One, FMul(FDiv(r, Num(4)), t5))
        t3 == FAdd(One, FMul(FDiv(r, Num(3)), t4))
        t2 == FAdd(One, FMul(FDiv(r, Num(2)), t3))
    IN  FAdd(One, FMul(r, t2))

\* The integer nearest to a finite q.
Nearest(q) == IF q.v >= 0 THEN (q.v + SCALE \div 2) \div SCALE ELSE -((-q.v + SCALE \div 2) \div SCALE)
\* e units of 1/SCALE times 2^k.
ExpScaled(e, k) == IF k >= 0 THEN Overflow(e * 2^k) ELSE Fin(RoundUp(e \div 2^(-k), e % 2^(-k), 2^(-k)))
ExpReduced(y, k) == ExpScaled(ExpSmall(FSub(y, FMul(Num(k), LN2))).v, k)

\* f64::exp: y = k*ln 2 + r; overflows above ln(MaxFin/SCALE), underflows to 0.
FExp(y) ==
    IF y.c = "nan" THEN NaN
    ELSE IF y.c = "pinf" THEN PInf
    ELSE IF y.c = "ninf" THEN Zero
    ELSE IF y.v > 7 * SCALE THEN PInf
    ELSE IF y.v < -15 * SCALE THEN Zero
    ELSE ExpReduced(y, Nearest(FDiv(y, LN2)))

\* f64::powf(x, e).  An integral exponent (every `p as f64` of an index or a
\* period count) is the repeated product; pow(x, 0) = 1 for every x, NaN
\* included; a negative base with a fractional exponent is NaN.
Powf(x, e) ==
    IF e.c = "fin" /\ e.v % SCALE = 0 THEN FPowI(x, e.v \div SCALE)
    ELSE IF x.c = "nan" \/ e.c = "nan" THEN (IF FEq(x, One) THEN One ELSE NaN)
    ELSE IF FEq(x, One) THEN One
    ELSE IF IsInf(e)
         THEN (IF FEq(FAbs(x), One) THEN One
               ELSE IF FLt(FAbs(x), One) = (e.c = "pinf") THEN Zero ELSE PInf)
    ELSE IF x.c = "pinf" THEN (IF e.v > 0 THEN PInf ELSE Zero)
    ELSE IF x.c = "ninf" THEN (IF e.v > 0 THEN PInf ELSE Zero)
    ELSE IF x.v = 0 THEN (IF e.v > 0 THEN Zero ELSE PInf)
    ELSE IF x.v < 0 THEN NaN
    ELSE FExp(FMul(e, FLn(x)))

\* ------------------------------------------------------------- util.rs

\* A tolerance m * 10^-e, kept exactly: RTOL lies below the format's resolution.
RTOL == [m |-> 1, e |-> 10]
ATOL == [m |-> 1, e |-> 5]

RECURSIVE DivPow10(_, _)
DivPow10(n, e) == IF e = 0 THEN n ELSE DivPow10(n \div 10, e - 1)

\* |d / r| <= tol, the quotient of two numbers of the format compared exactly:
\* d/0 is NaN or infinite and inf/inf is NaN, and neither is <= tol.
QuotLe(d, r, tol) ==
    /\ d.c = "fin"
    /\ r.c = "fin"
    /\ r.v # 0
    /\ IAbs(d.v) <= DivPow10(tol.m * IAbs(r.v), tol.e)

\* |d| <= tol.
AbsLe(d, tol) == d.c = "fin" /\ IAbs(d.v) <= DivPow10(tol.m * SCALE, tol.e)

\* Variant: both criteria required.
float_close_both(lhs, rhs, rtol, atol) ==
    QuotLe(FSub(lhs, rhs), rhs, rtol) /\ AbsLe(FSub(lhs, rhs), atol)

float_close(lhs, rhs, rtol, atol) ==
    LET cond1 == QuotLe(FSub(lhs, rhs), rhs, rtol)
        cond2 == AbsLe(FSub(lhs, rhs), atol)
    IN  cond1 \/ cond2

\* `when as u8 as f64`: End = 0, Begin = 1.
WhenType == {"End", "Begin"}
WhenF64(w) == IF w = "Begin" THEN One ELSE Zero

\* Option<f64> / Result<Option<f64>> outcomes of get(); Panic is an abort.
Some(val) == [tag |-> "Some", val |-> val]
None == [tag |-> "None", val |-> Zero]
Panic == [tag |-> "panic", val |-> Zero]
\* Ok(f64) of the get()s that return Result<f64>, and the f64 of npv's get().
Ok(val) == [tag |-> "Ok", val |-> val]
\* Err(..) of a Result.
Err == [tag |-> "Err", val |-> Zero]
Pending == [tag |-> "pending", val |-> Zero]

\* ParaType: the variants of a parameter value; ParaMap is a function from
\* keys to such values.
F64(v) == [variant |-> "F64", v |-> v]
U32(n) == [variant |-> "U32", v |-> n]
When(w) == [variant |-> "When", v |-> w]
VecF64(vs) == [variant |-> "VecF64", v |-> vs]

\* get_f64, get_u32, get_when, get_vecf64: Ok(v) when the key is present and
\* holds the variant asked for, Err(..) otherwise.
GetPara(map, field, variant) ==
    IF field \in DOMAIN map /\ map[field].variant = variant THEN Ok(map[field].v) ELSE Err
get_f64(map, field) == GetPara(map, field, "F64")
get_u32(map, field) == GetPara(map, field, "U32")
get_when(map, field) == GetPara(map, field, "When")
get_vecf64(map, field) == GetPara(map, field, "VecF64")

\* The getter for a variant, and the value wrapped in a variant.
GetAs(map, field, variant) ==
    CASE variant = "F64" -> get_f64(map, field)
      [] variant = "U32" -> get_u32(map, field)
      [] variant = "When" -> get_when(map, field)
      [] variant = "VecF64" -> get_vecf64(map, field)

Wrap(variant, v) ==
    CASE variant = "F64" -> F64(v)
      [] variant = "U32" -> U32(v)
      [] variant = "When" -> When(v)
      [] variant = "VecF64" -> VecF64(v)

\* Iterator::sum::<f64>(): the left fold from 0.0.
RECURSIVE SumTo(_, _)
SumTo(s, k) == IF k = 0 THEN Zero ELSE FAdd(SumTo(s, k - 1), s[k])
FSum(s) == SumTo(s, Len(s))
Rev(s) == [i \in 1..Len(s) |-> s[Len(s) + 1 - i]]

\* --------------------------------------------------------------- fv.rs

\* Variant: every payment treated as due at the end of its period.
FvCompound_end_only(tmp, rate, pmt, pv, when) ==
    FSub(FNeg(FMul(pv, tmp)), FMul(FDiv(pmt, rate), FSub(tmp, One)))

\* The rate != 0 arm of fv(), given tmp = (1 + rate)^nper.
FvCompound(tmp, rate, pmt, pv, when) ==
    LET pv_future == FMul(pv, tmp)
        when_f64 == WhenF64(when)
        pmt_future == FMul(FDiv(FMul(pmt, FAdd(One, FMul(rate, when_f64))), rate), FSub(tmp, One))
    IN  FSub(FNeg(pv_future), pmt_future)

\* Variant: at rate 0 a payment due at the beginning counts one period more.
FutureValue_due_at_zero(rate, nper, pmt, pv, when) ==
    IF FNe(rate, Zero)
    THEN FvCompound(Powf(FAdd(One, rate), Num(nper)), rate, pmt, pv, when)
    ELSE FSub(FNeg(pv), FMul(pmt, FAdd(Num(nper), WhenF64(when))))

FutureValue(rate, nper, pmt, pv, when) ==
    IF FNe(rate, Zero)
    THEN FvCompound(Powf(FAdd(One, rate), Num(nper)), rate, pmt, pv, when)
    ELSE FSub(FNeg(pv), FMul(pmt, Num(nper)))

\* -------------------------------------------------------------- pmt.rs

\* The rate != 0 arm of pmt(), given tmp = (1 + rate)^nper.
PmtCompound(tmp, rate, pv, fv, when) ==
    LET pv_future == FMul(pv, tmp)
        when_f64 == WhenF64(when)
        fact == FMul(FDiv(FAdd(One, FMul(rate, when_f64)), rate), FSub(tmp, One))
    IN  FDiv(FNeg(FAdd(fv, pv_future)), fact)

Payment(rate, nper, pv, fv, when) ==
    IF FNe(rate, Zero)
    THEN PmtCompound(Powf(FAdd(One, rate), Num(nper)), rate, pv, fv, when)
    ELSE FDiv(FNeg(FAdd(pv, fv)), Num(nper))

\* --------------------------------------------------------------- pv.rs

\* The rate != 0 arm of PresentValue's fv(), given temp = (1 + rate)^nper.
PvCompound(temp, rate, pmt, fv, when) ==
    LET when_f64 == WhenF64(when)
        fact == FDiv(FMul(FAdd(One, FMul(rate, when_f64)), FSub(temp, One)), rate)
    IN  FDiv(FNeg(FAdd(fv, FMul(pmt, fact))), temp)

PresentValue(rate, nper, pmt, fv, when) ==
    IF FNe(rate, Zero)
    THEN PvCompound(Powf(FAdd(One, rate), Num(nper)), rate, pmt, fv, when)
    ELSE FSub(FNeg(fv), FMul(pmt, Num(nper)))

\* -------------------------------------------------------------- npv.rs

\* Variant: the flow at index 0 left out.
NetPresentValue_skip_first(values, rate) ==
    FSum([i \in 1..Len(values) |->
            IF i = 1 THEN Zero ELSE FMul(values[i], Powf(FAdd(One, rate), FNeg(Num(i - 1))))])

NetPresentValue(values, rate) ==
    FSum([i \in 1..Len(values) |-> FMul(values[i], Powf(FAdd(One, rate), FNeg(Num(i - 1))))])

\* ------------------------------------------------------------- nper.rs

\* Variant: the rate test with < for <=.
NperArm_lt(o) ==
    IF FEq(o.rate, Zero) /\ FEq(o.pmt, Zero) THEN "inf"
    ELSE IF FEq(o.rate, Zero) THEN "zero_rate"
    ELSE IF FLt(o.rate, FNeg(One)) THEN "none"
    ELSE "ln"

\* Variant: without the rate = 0 and pmt = 0 arm.
NperArm_div_first(o) ==
    IF FEq(o.rate, Zero) THEN "zero_rate"
    ELSE IF FLe(o.rate, FNeg(One)) THEN "none"
    ELSE "ln"

\* The arm of nper()'s chain of early returns that is taken.
NperArm(o) ==
    IF FEq(o.rate, Zero) /\ FEq(o.pmt, Zero) THEN "inf"
    ELSE IF FEq(o.rate, Zero) THEN "zero_rate"
    ELSE IF FLe(o.rate, FNeg(One)) THEN "none"
    ELSE "ln"

NumberPeriod(o) ==
    LET arm == NperArm(o)
    IN  IF arm = "inf" THEN Some(PInf)
        ELSE IF arm = "zero_rate" THEN Some(FDiv(FNeg(FAdd(o.fv, o.pv)), o.pmt))
        ELSE IF arm = "none" THEN None
        ELSE LET when_f64 == WhenF64(o.when)
                 z == FDiv(FMul(o.pmt, FAdd(One, FMul(o.rate, when_f64))), o.rate)
             IN  Some(FDiv(FLn(FDiv(FAdd(FNeg(o.fv), z), FAdd(o.pv, z))), FLn(FAdd(One, o.rate))))

\* ------------------------------------------------------------- ipmt.rs

\* Variant: without the first-period arm of when = Begin.
IpmtOfBalance_no_first(o, rbl) ==
    IF o.when = "Begin"
    THEN Some(FMul(FDiv(rbl, FAdd(One, o.rate)), o.rate))
    ELSE Some(FMul(rbl, o.rate))

\* The interest on the remaining balance rbl.
IpmtOfBalance(o, rbl) ==
    IF o.when = "Begin"
    THEN (IF o.per = 1 THEN Some(Zero) ELSE Some(FMul(FDiv(rbl, FAdd(One, o.rate)), o.rate)))
    ELSE Some(FMul(rbl, o.rate))

\* The remaining balance: the future value after per - 1 payments of total_pmt.
IpmtBalance(o) ==
    FutureValue(o.rate, o.per - 1, Payment(o.rate, o.nper, o.pv, o.fv, o.when), o.pv, o.when)

\* Variant: without the per >= 1 guard.
InterestPayment_no_guard(o) == IpmtOfBalance(o, IpmtBalance(o))

InterestPayment(o) == IF o.per >= 1 THEN IpmtOfBalance(o, IpmtBalance(o)) ELSE None

\* Variant: the subtraction evaluated before the guard.
IpmtSubtractions_unguarded(o) == <<[op |-> "sub_u32", a |-> o.per, b |-> 1]>>

\* The u32 subtractions ipmt() evaluates: self.per - 1, inside `if self.per >= 1`.
IpmtSubtractions(o) ==
    IF o.per >= 1 THEN <<[op |-> "sub_u32", a |-> o.per, b |-> 1]>> ELSE <<>>

\* ------------------------------------------------------------- ppmt.rs

\* total_pmt - ipmt when the interest payment exists.
PpmtOfInterest(o, ipmt) ==
    IF ipmt.tag = "Some"
    THEN Some(FSub(Payment(o.rate, o.nper, o.pv, o.fv, o.when), ipmt.val))
    ELSE None

PrincipalPayment(o) == PpmtOfInterest(o, InterestPayment(o))

\* -------------------------------------------------------------- irr.rs

\* Variant: the coefficients taken in the given order, not reversed.
fx_forward(v, pt) ==
    FSum([i \in 1..Len(v) |-> FMul(v[i], Powf(pt, Num(i - 1)))])

\* Variant: the first element of the reversed sequence is not skipped.
dx_no_skip(v, pt) ==
    FSum([i \in 1..Len(v) |-> FMul(FMul(Rev(v)[i], FAdd(Num(i - 1), One)), Powf(pt, Num(i - 1)))])

\* f(pt) = sum of v[n-p] * pt^p over p = 0..n-1 (v reversed, enumerated).
fx(v, pt) ==
    LET r == Rev(v)
    IN  FSum([i \in 1..Len(v) |-> FMul(r[i], Powf(pt, Num(i - 1)))])

\* sum of c * (p + 1) * pt^p over the reversed v with its first element skipped.
dx(v, pt) ==
    LET r == Rev(v)
        m == IF Len(v) = 0 THEN 0 ELSE Len(v) - 1
    IN  FSum([i \in 1..m |-> FMul(FMul(r[i + 1], FAdd(Num(i - 1), One)), Powf(pt, Num(i - 1)))])

\* The loop bound of find_root and its starting point.
FindRootMaxIter == 100
\* Variant: the starting point of _find_roots.
FindRootStart_minus_ten == Num(-10)

FindRootStart == Dec(-9, 10)

all_negative(values) == \A i \in 1..Len(values) : FLe(values[i], Zero)
all_positive(values) == \A i \in 1..Len(values) : FLt(Zero, values[i])

\* Variant: the length test alone.
IrrRejects_len_only(values) == Len(values) <= 1

\* irr()'s early returns.
IrrRejects(values) == Len(values) <= 1 \/ all_negative(values) \/ all_positive(values)

\* ------------------------------------------------------------- mirr.rs

any_negative(values) == \E i \in 1..Len(values) : FLe(values[i], Zero)
any_positive(values) == \E i \in 1..Len(values) : FLt(Zero, values[i])

\* Variants: either sign suffices; a zero is not a negative flow; a positive
\* flow suffices.
MirrAccepts_or(values) == any_negative(values) \/ any_positive(values)

MirrAccepts_strict_neg(values) ==
    (\E i \in 1..Len(values) : FLt(values[i], Zero)) /\ any_positive(values)

MirrAccepts_any_pos(values) == any_positive(values)

\* mirr()'s sign check: the else arm is taken when it holds.
MirrAccepts(values) == any_negative(values) /\ any_positive(values)

neg_pmts(values) == [i \in 1..Len(values) |-> IF FLt(values[i], Zero) THEN values[i] ELSE Zero]
pos_pmts(values) == [i \in 1..Len(values) |-> IF FLt(Zero, values[i]) THEN values[i] ELSE Zero]

\* The exponent 1 / (n - 1) of the else arm.
MirrExponent(values) == FDiv(One, FSub(Num(Len(values)), One))

\* Variant: the two rates exchanged.
ModifiedIRR_swapped_rates(o) ==
    IF ~MirrAccepts(o.values) THEN None
    ELSE Some(FSub(FMul(Powf(FDiv(FAbs(NetPresentValue(pos_pmts(o.values), o.finance_rate)),
                                  FAbs(NetPresentValue(neg_pmts(o.values), o.reinvest_rate))),
                             MirrExponent(o.values)),
                        FAdd(One, o.reinvest_rate)), One))

ModifiedIRR(o) ==
    IF ~MirrAccepts(o.values) THEN None
    ELSE LET numer == FAbs(NetPresentValue(pos_pmts(o.values), o.reinvest_rate))
             denom == FAbs(NetPresentValue(neg_pmts(o.values), o.finance_rate))
         IN  Some(FSub(FMul(Powf(FDiv(numer, denom), MirrExponent(o.values)), FAdd(One, o.reinvest_rate)), One))

\* ------------------------------------------------------------- rate.rs

\* g / gp, given t1, t2, r*w + 1 and p*(t1 - 1).
GOverGp(r, nf, p, xv, y, wf, t1, t2, rw1, pt1) ==
    LET g == FAdd(FAdd(y, FMul(t1, xv)), FDiv(FMul(pt1, rw1), r))
        gp == FAdd(FAdd(FSub(FMul(FMul(nf, t2), xv), FDiv(FMul(pt1, rw1), Powf(r, Num(2)))),
                        FDiv(FMul(FMul(FMul(nf, p), t2), rw1), r)),
                   FDiv(FMul(pt1, wf), r))
    IN  FDiv(g, gp)

GWithPowers(r, nf, p, xv, y, wf, t1, t2) ==
    GOverGp(r, nf, p, xv, y, wf, t1, t2, FAdd(FMul(r, wf), One), FMul(p, FSub(t1, One)))

g_div_gp(r, n, p, xv, y, w) ==
    GWithPowers(r, Num(n), p, xv, y, WhenF64(w),
                Powf(FAdd(r, One), Num(n)), Powf(FAdd(r, One), FSub(Num(n), One)))

\* gp alone, given t2, r*w + 1 and p*(t1 - 1).
GpOfPowers(r, nf, p, xv, wf, t2, rw1, pt1) ==
    FAdd(FAdd(FSub(FMul(FMul(nf, t2), xv), FDiv(FMul(pt1, rw1), Powf(r, Num(2)))),
              FDiv(FMul(FMul(FMul(nf, p), t2), rw1), r)),
         FDiv(FMul(pt1, wf), r))

\* The derivative g'(r) that _g_div_gp divides by.
RateGp(o, r) ==
    GpOfPowers(r, Num(o.nper), o.pmt, o.pv, WhenF64(o.when),
               Powf(FAdd(r, One), FSub(Num(o.nper), One)),
               FAdd(FMul(r, WhenF64(o.when)), One),
               FMul(o.pmt, FSub(Powf(FAdd(r, One), Num(o.nper)), One)))

\* One Newton step of rate(): rnp1 = rn - g(rn)/g'(rn).
RateNext(o, r) == FSub(r, g_div_gp(r, o.nper, o.pmt, o.pv, o.fv, o.when))

\* ------------------------------------------------- the loops of irr.rs, rate.rs

\* One pass of find_root's loop body at the iterate xv: the derivative nudge,
\* the return of x1, or the move to x1.
FindRootMove(xv, x1) ==
    IF float_close(xv, x1, RTOL, ATOL) THEN [kind |-> "return", x |-> x1]
    ELSE [kind |-> "next", x |-> x1]

\* Variant: no test of the derivative before the Newton step.
FindRootStep_no_nudge(xv, f, d) == FindRootMove(xv, FSub(xv, FDiv(f, d)))

FindRootStep(xv, f, d) ==
    IF float_close(d, Zero, RTOL, ATOL) THEN [kind |-> "nudge", x |-> FAdd(xv, One)]
    ELSE FindRootMove(xv, FSub(xv, FDiv(f, d)))

FindRootPass(v, xv) == FindRootStep(xv, fx(v, xv), dx(v, xv))

\* Variant: a root x <= 0, i.e. a rate <= -1, is discarded.
IrrOfRoot_filtered(root) ==
    IF root.tag = "Some"
    THEN (IF FLe(root.val, Zero) THEN None ELSE Some(FSub(root.val, One)))
    ELSE Panic

\* irr()'s last two lines: find_root(..)?.unwrap() - 1.0, wrapped in Ok(Some(..)).
\* unwrap() of find_root's None aborts.
IrrOfRoot(root) == IF root.tag = "Some" THEN Some(FSub(root.val, One)) ELSE Panic

\* rate()'s result after the loop.
RateResult(isClose, r) == IF isClose THEN Some(r) ELSE None

\* Variant: one more iteration allowed.
RateLoops_le(o, it, isClose) == it <= o.maxiter /\ ~isClose

\* Variant: the iterate is stored back into the guess field.
RateFields_store(o, rnp1) == [o EXCEPT !.guess = rnp1]

\* rate(&self): the fields after a pass of the loop that computed rnp1; the
\* shared borrow gives no write access, so they are the fields before it.
RateFields(o, rnp1) == o

\* rate()'s loop condition.
RateLoops(o, it, isClose) == it < o.maxiter /\ ~isClose

\* Variant: the test written !(diff >= tol), which a NaN diff passes.
RateClose_not_ge(o, r, rnp1) == ~FLe(o.tol, FAbs(FSub(rnp1, r)))

\* rate()'s convergence test: diff < tol.
RateClose(o, r, rnp1) == FLt(FAbs(FSub(rnp1, r)), o.tol)

\* ------------------------------------------------------------- from_map

Classes == {"fv", "pv", "pmt", "nper", "ipmt", "ppmt", "npv", "irr", "mirr", "rate"}

\* The keys each from_map reads, in the order of its get_* calls, with the
\* variant each getter asks for.
MapKeys(class) ==
    CASE class = "fv" -> <<<<"rate", "F64">>, <<"nper", "U32">>, <<"pmt", "F64">>, <<"pv", "F64">>, <<"when", "When">>>>
      [] class = "pv" -> <<<<"rate", "F64">>, <<"nper", "U32">>, <<"pmt", "F64">>, <<"fv", "F64">>, <<"when", "When">>>>
      [] class = "pmt" -> <<<<"rate", "F64">>, <<"nper", "U32">>, <<"pv", "F64">>, <<"fv", "F64">>, <<"when", "When">>>>
      [] class = "nper" -> <<<<"rate", "F64">>, <<"pmt", "F64">>, <<"pv", "F64">>, <<"fv", "F64">>, <<"when", "When">>>>
      [] class \in {"ipmt", "ppmt"} ->
             <<<<"rate", "F64">>, <<"per", "U32">>, <<"nper", "U32">>, <<"pv", "F64">>, <<"fv", "F64">>, <<"when", "When">>>>
      [] class = "npv" -> <<<<"values", "VecF64">>, <<"rate", "F64">>>>
      [] class = "irr" -> <<<<"values", "VecF64">>>>
      [] class = "mirr" -> <<<<"values", "VecF64">>, <<"finance_rate", "F64">>, <<"reinvest_rate", "F64">>>>
      [] class = "rate" ->
             <<<<"nper", "U32">>, <<"pmt", "F64">>, <<"pv", "F64">>, <<"fv", "F64">>, <<"when", "When">>,
               <<"guess", "F64">>, <<"tol", "F64">>, <<"maxiter", "U32">>>>

\* The from_map constructors that unwrap() the getters' results: they return
\* Self, not Result<Self>.
Unwrapping == {"rate", "ppmt", "npv"}

KeyNames(class) == {MapKeys(class)[i][1] : i \in 1..Len(MapKeys(class))}

\* Every getter of the class's from_map succeeds on the map.
GetsOk(class, map) ==
    \A i \in 1..Len(MapKeys(class)) :
        GetAs(map, MapKeys(class)[i][1], MapKeys(class)[i][2]).tag = "Ok"

\* from_map: the object built from the values read, or the first getter's
\* failure, returned as Err(..) by `?` and aborting in unwrap().
from_map(class, map) ==
    IF GetsOk(class, map) THEN Ok([k \in KeyNames(class) |-> map[k].v])
    ELSE IF class \in Unwrapping THEN Panic
    ELSE Err

\* ------------------------------------------------------------ the bounds

\* Longest cash-flow sequence, largest period count and index, largest maxiter.
MaxLen == 3
MaxPeriods == 2
MaxMaxiter == 5

RECURSIVE SeqsUpTo(_, _)
SeqsUpTo(S, n) == IF n = 0 THEN {<<>>} ELSE SeqsUpTo(S, n - 1) \cup [1..n -> S]

CashValues == {Num(-1), Dec(-1, 4), Zero, Num(1), NaN}
CashFlows == SeqsUpTo(CashValues, MaxLen)
MirrRates == {Zero, Dec(1, 10)}
NperRates == {Num(-10), Dec(-3, 2), Num(-1), Dec(-1, 2), Zero, Dec(75, 1000), NInf, NaN}
NperAmounts == {Num(-2), Zero, Num(1)}
SplitRates == {Num(-1), Zero, Dec(1, 10)}
SplitAmounts == {Zero, Num(2)}
RateAmounts == {Num(-1), Zero, Num(2)}
RateGuesses == {Zero, Dec(1, 10)}
RateTols == {Fin(1), Dec(1, 10)}
TvmRates == {Num(-1), Zero, Dec(1, 10), Num(1)}
NpvRates == {Zero, Dec(1, 10)}

\* One well-formed object of each class, and the maps from_map is called
\* with: its map, that map with one key absent, with the key "rate"
\* misspelled "Rate", and with one key holding another variant.
BaseObject(class) ==
    CASE class = "fv" -> [rate |-> Dec(1, 10), nper |-> 2, pmt |-> Num(1), pv |-> Num(1), when |-> "End"]
      [] class = "pv" -> [rate |-> Dec(1, 10), nper |-> 2, pmt |-> Num(1), fv |-> Num(1), when |-> "End"]
      [] class = "pmt" -> [rate |-> Dec(1, 10), nper |-> 2, pv |-> Num(1), fv |-> Num(1), when |-> "End"]
      [] class = "nper" -> [rate |-> Dec(1, 10), pmt |-> Num(-2), pv |-> Num(1), fv |-> Num(1), when |-> "End"]
      [] class \in {"ipmt", "ppmt"} ->
             [rate |-> Dec(1, 10), per |-> 1, nper |-> 2, pv |-> Num(2), fv |-> Zero, when |-> "End"]
      [] class = "npv" -> [values |-> <<Num(-1), Num(1)>>, rate |-> Dec(1, 10)]
      [] class = "irr" -> [values |-> <<Num(-1), Num(1)>>]
      [] class = "mirr" -> [values |-> <<Num(-1), Num(1)>>, finance_rate |-> Dec(1, 10), reinvest_rate |-> Zero]
      [] class = "rate" ->
             [nper |-> 2, pmt |-> Num(1), pv |-> Num(-1), fv |-> Zero, when |-> "End",
              guess |-> Dec(1, 10), tol |-> Dec(1, 10), maxiter |-> 2]

VariantOf(class, k) ==
    MapKeys(class)[CHOOSE i \in 1..Len(MapKeys(class)) : MapKeys(class)[i][1] = k][2]

BaseMap(class) ==
    [k \in KeyNames(class) |-> Wrap(VariantOf(class, k), BaseObject(class)[k])]

Without(map, k) == [j \in DOMAIN map \ {k} |-> map[j]]

Misspelled(map, k, as) ==
    [j \in (DOMAIN map \ {k}) \cup {as} |-> IF j = as THEN map[k] ELSE map[j]]

OtherVariant(map, k) ==
    [map EXCEPT ![k].variant = IF @ = "F64" THEN "U32" ELSE "F64"]

MapsOf(class) ==
    {BaseMap(class)}
    \cup {Without(BaseMap(class), k) : k \in KeyNames(class)}
    \cup {OtherVariant(BaseMap(class), k) : k \in KeyNames(class)}
    \cup {Misspelled(BaseMap(class), k, "Rate") : k \in KeyNames(class) \cap {"rate"}}

\* ------------------------------------------------------------ the state

\* formula, self: the formula object get() is evaluated on (never changed).
\* pc: the position in get().  x, iter: find_root's locals.  rn, close: rate()'s
\* locals (iter is shared).  result: what get() returned.  path: the arms
\* entered so far: irr's call of find_root, the callees of mirr's else arm,
\* the arm of nper's chain of returns.
\* formula, self: the instance and its fields. pc .. path: the position and
\* the locals of the get() call of the running thread. other: the same for a
\* second thread calling get() on the same instance (&self is shared).
\* returned: the outcomes get() has returned to its callers so far.
VARIABLES formula, self, pc, x, iter, rn, close, result, path, other, returned

vars == <<formula, self, pc, x, iter, rn, close, result, path, other, returned>>

\* The locals of a call that has not started.
Fresh ==
    [pc |-> "start", x |-> Zero, iter |-> 0, rn |-> Zero, close |-> FALSE,
     result |-> Pending, path |-> <<>>]

Locals0 ==
    /\ pc = "start"
    /\ x = Zero
    /\ iter = 0
    /\ rn = Zero
    /\ close = FALSE
    /\ result = Pending
    /\ path = <<>>
    /\ other = Fresh
    /\ returned = {}

InitIRR ==
    /\ formula = "irr"
    /\ self \in [values : CashFlows]
    /\ Locals0

InitMIRR ==
    /\ formula = "mirr"
    /\ self \in [values : CashFlows, finance_rate : MirrRates, reinvest_rate : MirrRates]
    /\ Locals0

InitNPER ==
    /\ formula = "nper"
    /\ self \in [rate : NperRates, pmt : NperAmounts, pv : NperAmounts, fv : NperAmounts, when : WhenType]
    /\ Locals0

InitIPMT ==
    /\ formula = "ipmt"
    /\ self \in [rate : SplitRates, per : 0..MaxPeriods + 1, nper : 0..MaxPeriods, pv : SplitAmounts, fv : SplitAmounts, when : WhenType]
    /\ Locals0

InitPPMT ==
    /\ formula = "ppmt"
    /\ self \in [rate : SplitRates, per : 0..MaxPeriods + 1, nper : 0..MaxPeriods, pv : SplitAmounts, fv : SplitAmounts, when : WhenType]
    /\ Locals0

InitRate ==
    /\ formula = "rate"
    /\ self \in [nper : 0..MaxPeriods, pmt : {Zero, Num(1)}, pv : RateAmounts, fv : RateAmounts, when : WhenType,
                 guess : RateGuesses, tol : RateTols, maxiter : 0..MaxMaxiter]
    /\ Locals0

InitFV ==
    /\ formula = "fv"
    /\ self \in [rate : TvmRates, nper : 0..MaxPeriods, pmt : NperAmounts, pv : NperAmounts, when : WhenType]
    /\ Locals0

InitPV ==
    /\ formula = "pv"
    /\ self \in [rate : TvmRates, nper : 0..MaxPeriods, pmt : NperAmounts, fv : NperAmounts, when : WhenType]
    /\ Locals0

InitPMT ==
    /\ formula = "pmt"
    /\ self \in [rate : TvmRates, nper : 0..MaxPeriods, pv : NperAmounts, fv : NperAmounts, when : WhenType]
    /\ Locals0

InitNPV ==
    /\ formula = "npv"
    /\ self \in [values : CashFlows, rate : NpvRates]
    /\ Locals0

\* A from_map call about to run: the class it belongs to and the map passed.
InitFromMap ==
    /\ formula = "from_map"
    /\ self \in UNION {{[class |-> c, map |-> m] : m \in MapsOf(c)} : c \in Classes}
    /\ Locals0

Init ==
    \/ InitFromMap
    \/ InitIRR
    \/ InitMIRR
    \/ InitNPER
    \/ InitIPMT
    \/ InitPPMT
    \/ InitRate
    \/ InitFV
    \/ InitPV
    \/ InitPMT
    \/ InitNPV

\* ------------------------------------------------------------------- from_map

\* from_map(map): on success the object exists and its get() may be called;
\* on failure the call ends with Err(..), or aborts where the getters'
\* results are unwrapped.
FromMap ==
    /\ formula = "from_map"
    /\ pc = "start"
    /\ \E built \in {from_map(self.class, self.map)} :
           IF built.tag = "Ok"
           THEN /\ formula' = self.class
                /\ self' = built.val
                /\ UNCHANGED <<pc, result>>
           ELSE /\ pc' = "done"
                /\ result' = built
                /\ UNCHANGED <<formula, self>>
    /\ UNCHANGED <<other, returned, x, iter, rn, close, path>>

\* ---------------------------------------------------------- InternalRateReturn

\* irr(): the early returns, else the entry of find_root (x = -0.9, iter = 0).
IrrStart ==
    /\ formula = "irr"
    /\ pc = "start"
    /\ IF IrrRejects(self.values)
       THEN /\ pc' = "done"
            /\ result' = None
            /\ UNCHANGED <<x, iter, path>>
       ELSE /\ pc' = "find_root"
            /\ x' = FindRootStart
            /\ iter' = 0
            /\ path' = Append(path, "find_root")
            /\ UNCHANGED result
    /\ UNCHANGED <<other, returned, formula, self, rn, close>>

\* One pass of `while iter < 100`.
FindRootLoop ==
    /\ formula = "irr"
    /\ pc = "find_root"
    /\ iter < FindRootMaxIter
    /\ \E pass \in {FindRootPass(self.values, x)} :
           IF pass.kind = "return"
           THEN /\ pc' = "done"
                /\ result' = IrrOfRoot(Some(pass.x))
                /\ UNCHANGED <<x, iter>>
           ELSE /\ x' = pass.x
                /\ iter' = iter + 1
                /\ UNCHANGED <<pc, result>>
    /\ UNCHANGED <<other, returned, formula, self, rn, close, path>>

\* The loop ends at iter = 100: find_root returns Ok(None) to irr().
FindRootExhausted ==
    /\ formula = "irr"
    /\ pc = "find_root"
    /\ ~(iter < FindRootMaxIter)
    /\ pc' = "done"
    /\ result' = IrrOfRoot(None)
    /\ UNCHANGED <<other, returned, formula, self, x, iter, rn, close, path>>

NextIRR == IrrStart \/ FindRootLoop \/ FindRootExhausted

\* ------------------------------------------------------------------ ModifiedIRR

\* mirr(): the sign check; its else arm is evaluated by MirrElse.
MirrCheck ==
    /\ formula = "mirr"
    /\ pc = "start"
    /\ IF ~MirrAccepts(self.values)
       THEN pc' = "done" /\ result' = None
       ELSE pc' = "else_arm" /\ UNCHANGED result
    /\ UNCHANGED <<other, returned, formula, self, x, iter, rn, close, path>>

MirrElse ==
    /\ formula = "mirr"
    /\ pc = "else_arm"
    /\ pc' = "done"
    /\ result' = ModifiedIRR(self)
    /\ path' = path \o <<"NetPresentValue", "NetPresentValue", "powf">>
    /\ UNCHANGED <<other, returned, formula, self, x, iter, rn, close>>

NextMIRR == MirrCheck \/ MirrElse

\* ---------------------------------------------------------------- NumberPeriod

NperGet ==
    /\ formula = "nper"
    /\ pc = "start"
    /\ pc' = "done"
    /\ result' = NumberPeriod(self)
    /\ path' = Append(path, NperArm(self))
    /\ UNCHANGED <<other, returned, formula, self, x, iter, rn, close>>

NextNPER == NperGet

\* ------------------------------------------------- InterestPayment, PrincipalPayment

IpmtGet ==
    /\ formula = "ipmt"
    /\ pc = "start"
    /\ pc' = "done"
    /\ result' = InterestPayment(self)
    /\ path' = path \o IpmtSubtractions(self)
    /\ UNCHANGED <<other, returned, formula, self, x, iter, rn, close>>

NextIPMT == IpmtGet

PpmtGet ==
    /\ formula = "ppmt"
    /\ pc = "start"
    /\ pc' = "done"
    /\ result' = PrincipalPayment(self)
    /\ UNCHANGED <<other, returned, formula, self, x, iter, rn, close, path>>

NextPPMT == PpmtGet

\* ------------------------------ FutureValue, PresentValue, Payment, NetPresentValue

FvGet ==
    /\ formula = "fv"
    /\ pc = "start"
    /\ pc' = "done"
    /\ result' = Ok(FutureValue(self.rate, self.nper, self.pmt, self.pv, self.when))
    /\ UNCHANGED <<other, returned, formula, self, x, iter, rn, close, path>>

PvGet ==
    /\ formula = "pv"
    /\ pc = "start"
    /\ pc' = "done"
    /\ result' = Ok(PresentValue(self.rate, self.nper, self.pmt, self.fv, self.when))
    /\ UNCHANGED <<other, returned, formula, self, x, iter, rn, close, path>>

PmtGet ==
    /\ formula = "pmt"
    /\ pc = "start"
    /\ pc' = "done"
    /\ result' = Ok(Payment(self.rate, self.nper, self.pv, self.fv, self.when))
    /\ UNCHANGED <<other, returned, formula, self, x, iter, rn, close, path>>

NpvGet ==
    /\ formula = "npv"
    /\ pc = "start"
    /\ pc' = "done"
    /\ result' = Ok(NetPresentValue(self.values, self.rate))
    /\ UNCHANGED <<other, returned, formula, self, x, iter, rn, close, path>>

NextTVM == FvGet \/ PvGet \/ PmtGet \/ NpvGet

\* ------------------------------------------------------------------------ Rate

\* rate(): rn = guess, iter = 0, close = false.
RateStart ==
    /\ formula = "rate"
    /\ pc = "start"
    /\ pc' = "loop"
    /\ rn' = self.guess
    /\ iter' = 0
    /\ close' = FALSE
    /\ UNCHANGED <<other, returned, formula, self, x, result, path>>

\* One pass of `while (iter < maxiter) & (!close)`.
RateLoop ==
    /\ formula = "rate"
    /\ pc = "loop"
    /\ RateLoops(self, iter, close)
    /\ \E rnp1 \in {RateNext(self, rn)} :
           /\ close' = RateClose(self, rn, rnp1)
           /\ iter' = iter + 1
           /\ rn' = rnp1
           /\ self' = RateFields(self, rnp1)
    /\ UNCHANGED <<other, returned, formula, pc, x, result, path>>

\* After the loop: Some(rn) if close, else None.
RateExit ==
    /\ formula = "rate"
    /\ pc = "loop"
    /\ ~RateLoops(self, iter, close)
    /\ pc' = "done"
    /\ result' = RateResult(close, rn)
    /\ UNCHANGED <<other, returned, formula, self, x, iter, rn, close, path>>

NextRate == RateStart \/ RateLoop \/ RateExit

Next == FromMap \/ NextIRR \/ NextMIRR \/ NextNPER \/ NextIPMT \/ NextPPMT \/ NextRate \/ NextTVM

Spec == Init /\ [][Next]_vars

\* ------------------------------------------------- repeated and concurrent get()

\* The instances shared between two threads: one of each class, a Rate whose
\* iteration meets a division by zero, cash flows of three values, and one
\* on which find_root uses up its passes.
SharedObjects ==
    {<<c, BaseObject(c)>> : c \in Classes}
    \cup {<<"rate", [BaseObject("rate") EXCEPT !.guess = g, !.maxiter = m]>> :
              g \in {Zero, Dec(1, 10), Num(1)}, m \in 0..MaxMaxiter}
    \cup {<<"irr", [values |-> vs]>> : vs \in {<<Num(-1), Num(1), Num(1)>>, <<Num(1), Num(-2), Num(1)>>, <<NaN, Num(1)>>}}

InitThreads ==
    /\ \/ \E o \in SharedObjects : formula = o[1] /\ self = o[2]
       \/ /\ formula = "from_map"
          /\ self \in UNION {{[class |-> c, map |-> m] : m \in MapsOf(c)} : c \in {"fv", "rate"}}
    /\ Locals0

\* The scheduler parks the running thread and resumes the other one; each
\* thread keeps its own locals, the instance is the same.
ContextSwitch ==
    /\ formula # "from_map"
    /\ other' = [pc |-> pc, x |-> x, iter |-> iter, rn |-> rn, close |-> close,
                 result |-> result, path |-> path]
    /\ pc' = other.pc
    /\ x' = other.x
    /\ iter' = other.iter
    /\ rn' = other.rn
    /\ close' = other.close
    /\ result' = other.result
    /\ path' = other.path
    /\ UNCHANGED <<formula, self, returned>>

\* get() returns its outcome to the caller, and the thread calls get() on the
\* instance again: a new call starts with new locals.
GetAgain ==
    /\ formula # "from_map"
    /\ pc = "done"
    /\ returned' = returned \cup {result}
    /\ pc' = Fresh.pc
    /\ x' = Fresh.x
    /\ iter' = Fresh.iter
    /\ rn' = Fresh.rn
    /\ close' = Fresh.close
    /\ result' = Fresh.result
    /\ path' = Fresh.path
    /\ UNCHANGED <<formula, self, other>>

NextThreads == Next \/ ContextSwitch \/ GetAgain

SpecThreads == InitThreads /\ [][NextThreads]_vars
\* ------------------------------------------------------------------ claims

\* C1: when find_root's 100 passes end without a return, get() of
\* InternalRateReturn returns "no solution" (None); it does not abort.
C1_ExhaustedIsNone ==
    (formula = "irr" /\ pc = "done" /\ iter = FindRootMaxIter) => result = None

\* The k-th iterate of Rate's Newton sequence from the guess.
RECURSIVE RateIterate(_, _)
RateIterate(o, k) == IF k = 0 THEN o.guess ELSE RateNext(o, RateIterate(o, k - 1))

\* The iterations, among the first maxiter, at which |r_next - r| < tol.
RateConverged(o) ==
    {k \in 1..o.maxiter : FLt(FAbs(FSub(RateIterate(o, k), RateIterate(o, k - 1))), o.tol)}

Least(S) == CHOOSE k \in S : \A j \in S : k <= j

\* C2: Rate.get() returns the iterate r_next of the first iteration k in
\* 1..maxiter with |r_next - r| < tol, and None iff there is no such iteration.
C2_RateFirstConvergence ==
    (formula = "rate" /\ pc = "done") =>
        IF RateConverged(self) = {} THEN result = None
        ELSE result = Some(RateIterate(self, Least(RateConverged(self))))

\* Convergence first detected on the last allowed iteration, maxiter >= 2.
C2_Witness ==
    /\ formula = "rate"
    /\ pc = "done"
    /\ result.tag = "Some"
    /\ self.maxiter >= 2
    /\ Least(RateConverged(self)) = self.maxiter

\* C3: InternalRateReturn.get() returns None at once, without entering the
\* Newton search, when the sequence has length <= 1, or all its values are
\* <= 0, or all its values are > 0.
C3_IrrPreconditions ==
    (/\ formula = "irr"
     /\ \/ Len(self.values) <= 1
        \/ \A i \in 1..Len(self.values) : FLe(self.values[i], Zero)
        \/ \A i \in 1..Len(self.values) : FLt(Zero, self.values[i]))
    => /\ pc # "find_root"
       /\ path = <<>>
       /\ iter = 0
       /\ pc = "done" => result = None

\* get() has returned None for a two-element sequence of zeros.
C3_Witness ==
    /\ formula = "irr"
    /\ pc = "done"
    /\ self.values = <<Zero, Zero>>
    /\ result = None
    /\ path = <<>>
\* C4: whenever InternalRateReturn.get() returns a rate r, NPV(r, values) is
\* tolerance-close to zero.
C4_ReturnedRateIsRoot ==
    (formula = "irr" /\ pc = "done" /\ result.tag = "Some") =>
        float_close(NetPresentValue(self.values, result.val), Zero, RTOL, ATOL)

\* C5: ModifiedIRR.get() returns None before any NPV computation unless some
\* value is <= 0 and some value is > 0; when both exist it returns a number.
C5_MirrPrecondition ==
    formula = "mirr" =>
        LET vs == self.values
            mixed == /\ \E i \in 1..Len(vs) : FLe(vs[i], Zero)
                     /\ \E i \in 1..Len(vs) : FLt(Zero, vs[i])
        IN  /\ ~mixed => /\ pc # "else_arm"
                         /\ path = <<>>
                         /\ pc = "done" => result = None
            /\ (mixed /\ pc = "done") => result.tag = "Some"

\* get() has returned a number that is not finite (the discounted sum of the
\* negative flows is zero).
C5_Witness ==
    /\ formula = "mirr"
    /\ pc = "done"
    /\ result.tag = "Some"
    /\ ~IsFin(result.val)
    /\ path # <<>>

\* C6 as stated: some sequence of length > 1, the one held by the running
\* IRR or MIRR computation or another one, passes MIRR's sign check and is
\* rejected by IRR's.
C6_MirrLooserThanIrr ==
    formula \in {"irr", "mirr"} =>
        \E vs \in CashFlows \cup {self.values} :
            Len(vs) > 1 /\ MirrAccepts(vs) /\ IrrRejects(vs)

NoNaN(vs) == \A i \in 1..Len(vs) : ~IsNaN(vs[i])

\* C6 amended: every sequence that passes MIRR's sign check has length > 1
\* and passes IRR's checks, and every sequence without NaN that passes IRR's
\* checks passes MIRR's.
C6_SameSignCheck ==
    /\ (formula = "mirr" /\ pc = "else_arm") =>
           Len(self.values) > 1 /\ ~IrrRejects(self.values)
    /\ (formula = "irr" /\ pc = "find_root" /\ NoNaN(self.values)) =>
           MirrAccepts(self.values)

\* MIRR's check has accepted a sequence whose only non-positive value is a
\* zero.
C6_Witness ==
    /\ formula = "mirr"
    /\ pc = "else_arm"
    /\ \E i \in 1..Len(self.values) : IsZero(self.values[i])
    /\ \A i \in 1..Len(self.values) : ~FLt(self.values[i], Zero)

\* C7 as stated: for a sequence of length 1, ModifiedIRR.get() evaluates the
\* exponent 1/(n-1), a division by zero.
C7_LengthOneDividesByZero ==
    (formula = "mirr" /\ pc = "done" /\ Len(self.values) = 1) =>
        path # <<>> /\ IsInf(MirrExponent(self.values))

\* C7 amended: for a sequence of length <= 1 ModifiedIRR.get() returns None
\* from the sign check and never evaluates the exponent; whenever the
\* exponent 1/(n-1) is evaluated, n >= 2 and the exponent is finite.
C7_ExponentNeedsTwoValues ==
    formula = "mirr" =>
        /\ Len(self.values) <= 1 => /\ pc # "else_arm"
                                    /\ path = <<>>
                                    /\ pc = "done" => result = None
        /\ path # <<>> => /\ Len(self.values) >= 2
                          /\ IsFin(MirrExponent(self.values))

\* get() has returned None for a single positive value.
C7_Witness ==
    /\ formula = "mirr"
    /\ pc = "done"
    /\ Len(self.values) = 1
    /\ FLt(Zero, self.values[1])
    /\ result = None
    /\ path = <<>>

\* C8: NumberPeriod.get() returns None for every rate <= -1, whatever the
\* other parameters, and evaluates no logarithm.
C8_NperRateAtMostMinusOne ==
    (formula = "nper" /\ pc = "done" /\ FLe(self.rate, Num(-1))) =>
        result = None /\ path = <<"none">>

\* get() has returned None for rate exactly -1 with pmt = 0.
C8_Witness ==
    /\ formula = "nper"
    /\ pc = "done"
    /\ self.rate = Num(-1)
    /\ self.pmt = Zero
    /\ result = None

\* C9: with rate = 0 and pmt = 0 NumberPeriod.get() returns exactly +Inf,
\* and the zero-rate division is reached only when rate = 0 and pmt # 0.
C9_NperZeroRateZeroPmt ==
    (formula = "nper" /\ pc = "done") =>
        /\ (FEq(self.rate, Zero) /\ FEq(self.pmt, Zero)) =>
               result = Some(PInf) /\ path = <<"inf">>
        /\ path = <<"zero_rate">> <=>
               (FEq(self.rate, Zero) /\ FNe(self.pmt, Zero))

\* get() has returned +Inf where the division -(fv + pv)/pmt would be 0/0.
C9_Witness ==
    /\ formula = "nper"
    /\ pc = "done"
    /\ self.rate = Zero
    /\ self.pmt = Zero
    /\ IsZero(FAdd(self.fv, self.pv))
    /\ result = Some(PInf)

\* C10: InterestPayment.get() returns None iff per < 1, PrincipalPayment.get()
\* returns None in exactly the same cases, and for per >= 1 both return a
\* number.
C10_AbsentIffPerBelowOne ==
    (formula \in {"ipmt", "ppmt"} /\ pc = "done") =>
        /\ result = None <=> self.per < 1
        /\ self.per >= 1 => result.tag = "Some"
        /\ InterestPayment(self) = None <=> PrincipalPayment(self) = None

\* PrincipalPayment.get() has returned None for per = 0.
C10_Witness ==
    /\ formula = "ppmt"
    /\ pc = "done"
    /\ self.per = 0
    /\ result = None
\* C11: with when = Begin and per = 1 InterestPayment.get() returns exactly 0
\* for every rate, nper, pv and fv, whatever the total payment and the
\* remaining balance are.
C11_FirstBeginInterestIsZero ==
    (formula = "ipmt" /\ pc = "done" /\ self.when = "Begin" /\ self.per = 1) =>
        result = Some(Zero)

\* get() has returned 0 although the total payment is not a finite number.
C11_Witness ==
    /\ formula = "ipmt"
    /\ pc = "done"
    /\ self.when = "Begin"
    /\ self.per = 1
    /\ ~IsFin(Payment(self.rate, self.nper, self.pv, self.fv, self.when))
    /\ result = Some(Zero)
\* Two results agree: the same value (the same infinity, or NaN on both
\* sides), or tolerance-close values.
Agree(a, b) == a = b \/ float_close(a, b, RTOL, ATOL)

\* C12: for the same parameters and every per in 1..nper, the interest
\* payment plus the principal payment equals Payment(rate, nper, pv, fv, when).
C12_InterestPlusPrincipalIsPayment ==
    (formula = "ppmt" /\ pc = "done" /\ self.per >= 1 /\ self.per <= self.nper) =>
        /\ result.tag = "Some"
        /\ InterestPayment(self).tag = "Some"
        /\ Agree(FAdd(InterestPayment(self).val, result.val),
                 Payment(self.rate, self.nper, self.pv, self.fv, self.when))
\* C13: for every rate != 0, rate = -1 included, with F the result of
\* FutureValue(rate, nper, pmt, pv, when), PresentValue(rate, nper, pmt, F, when)
\* returns pv.
C13_PresentValueInvertsFutureValue ==
    (formula = "fv" /\ pc = "done" /\ FNe(self.rate, Zero)) =>
        Agree(PresentValue(self.rate, self.nper, self.pmt, result.val, self.when), self.pv)
\* C14: for every rate, nper, pv, fv and when, FutureValue evaluated with the
\* payment that Payment returns is tolerance-close to fv, and every payment
\* with that property is the one Payment returns.
C14_PaymentInvertsFutureValue ==
    (formula = "pmt" /\ pc = "done") =>
        /\ Agree(FutureValue(self.rate, self.nper, result.val, self.pv, self.when), self.fv)
        /\ \A q \in NperAmounts :
               Agree(FutureValue(self.rate, self.nper, q, self.pv, self.when), self.fv)
                   => Agree(q, result.val)
\* C15: FutureValue.get() returns -pv - pmt*nper when rate = 0, and
\* -pv*(1+rate)^nper - pmt*(1+rate*w)/rate*((1+rate)^nper - 1) when rate != 0,
\* with w = 0 for End and w = 1 for Begin.
C15_FutureValueFormula ==
    (formula = "fv" /\ pc = "done") =>
        LET w == IF self.when = "End" THEN Num(0) ELSE Num(1)
            growth == Powf(FAdd(Num(1), self.rate), Num(self.nper))
        IN  IF FEq(self.rate, Zero)
            THEN result = Ok(FSub(FNeg(self.pv), FMul(self.pmt, Num(self.nper))))
            ELSE result = Ok(FSub(FNeg(FMul(self.pv, growth)),
                                  FMul(FDiv(FMul(self.pmt, FAdd(Num(1), FMul(self.rate, w))),
                                            self.rate),
                                       FSub(growth, Num(1)))))

\* A future value with payments at the beginning of two compounding periods.
C15_Witness ==
    /\ formula = "fv"
    /\ pc = "done"
    /\ self.when = "Begin"
    /\ self.rate = Dec(1, 10)
    /\ self.nper = 2
    /\ self.pmt = Num(1)
    /\ self.pv = Num(1)
    /\ result.tag = "Ok"
    /\ IsFin(result.val)
    /\ ~IsZero(result.val)
\* The plain sum of a sequence, 0 for the empty one.
RECURSIVE PlainSum(_)
PlainSum(vs) == IF vs = <<>> THEN Zero ELSE FAdd(Head(vs), PlainSum(Tail(vs)))

\* C16: with rate = 0 NetPresentValue returns the plain sum of the sequence,
\* every element weighted by 1, and 0 for the empty sequence.
C16_NpvAtZeroRateIsSum ==
    (formula = "npv" /\ pc = "done" /\ self.rate = Zero) =>
        /\ result = Ok(PlainSum(self.values))
        /\ self.values = <<>> => result = Ok(Zero)

\* The sum of three flows of both signs.
C16_Witness ==
    /\ formula = "npv"
    /\ pc = "done"
    /\ self.rate = Zero
    /\ self.values = <<Num(-1), Dec(-1, 4), Num(1)>>
    /\ result = Ok(Dec(-1, 4))
\* The flows of the claim: the negative values, and the positive values, each
\* at its position, 0 elsewhere.
NegFlows(vs) == [i \in 1..Len(vs) |-> IF FLt(vs[i], Zero) THEN vs[i] ELSE Zero]
PosFlows(vs) == [i \in 1..Len(vs) |-> IF FLt(Zero, vs[i]) THEN vs[i] ELSE Zero]

\* (numerator / denominator)^(1/(n-1)) * (1 + reinvest_rate) - 1, the positive
\* flows discounted at reinvest_rate, the negative ones at finance_rate.
MirrFormula(o) ==
    FSub(FMul(Powf(FDiv(FAbs(NetPresentValue(PosFlows(o.values), o.reinvest_rate)),
                        FAbs(NetPresentValue(NegFlows(o.values), o.finance_rate))),
                   FDiv(Num(1), FSub(Num(Len(o.values)), Num(1)))),
              FAdd(Num(1), o.reinvest_rate)),
         Num(1))

\* What MIRR built and returned is what the claim describes.
MirrBuiltAsClaimed ==
    /\ neg_pmts(self.values) = NegFlows(self.values)
    /\ pos_pmts(self.values) = PosFlows(self.values)
    /\ Len(neg_pmts(self.values)) = Len(self.values)
    /\ Len(pos_pmts(self.values)) = Len(self.values)
    /\ result = Some(MirrFormula(self))

\* C17 as stated: MIRR builds the two flows, returns the formula, and the two
\* flows add up to values[i] at every position.
C17_FlowsAddUpEverywhere ==
    (formula = "mirr" /\ pc = "done" /\ result.tag = "Some") =>
        /\ MirrBuiltAsClaimed
        /\ \A i \in 1..Len(self.values) :
               FAdd(neg_pmts(self.values)[i], pos_pmts(self.values)[i]) = self.values[i]

\* C17 amended: MIRR builds the two flows and returns the formula; the two
\* flows add up to values[i] at every position whose value is not NaN, and
\* are both 0 at a position whose value is NaN.
C17_MirrConstruction ==
    (formula = "mirr" /\ pc = "done" /\ result.tag = "Some") =>
        /\ MirrBuiltAsClaimed
        /\ \A i \in 1..Len(self.values) :
               IF IsNaN(self.values[i])
               THEN neg_pmts(self.values)[i] = Zero /\ pos_pmts(self.values)[i] = Zero
               ELSE FAdd(neg_pmts(self.values)[i], pos_pmts(self.values)[i]) = self.values[i]

\* MIRR has returned a finite rate for a sequence that holds a NaN, with
\* different finance and reinvest rates.
C17_Witness ==
    /\ formula = "mirr"
    /\ pc = "done"
    /\ self.values = <<NaN, Num(-1), Num(1)>>
    /\ self.finance_rate # self.reinvest_rate
    /\ result.tag = "Some"
    /\ IsFin(result.val)
\* C18: from_map with a missing or misspelled key, or a key holding another
\* variant, ends with a failure value (Err) in every class; it never aborts.
C18_FromMapFailureIsErr ==
    (formula = "from_map" /\ pc = "done") => result = Err
\* C19: a NaN or an infinity that arises during an evaluation is returned as
\* the numeric result: when Rate's iterate has become NaN or infinite, get()
\* returns that value (Some), not "no solution" (None) and not a failure.
C19_DegenerateIterateIsReturned ==
    (formula = "rate" /\ pc = "done" /\ iter >= 1 /\ ~IsFin(rn)) => result = Some(rn)
\* C20: get() leaves every field of its instance unchanged, and all the get()
\* calls on one instance, one after another or interleaved between two
\* threads, return the same outcome.
C20_Outcomes ==
    formula # "from_map" =>
        /\ Cardinality(returned) <= 1
        /\ pc = "done" => returned \subseteq {result}
        /\ (pc = "done" /\ other.pc = "done") => result = other.result

C20_GetIsReadOnlyAndRepeatable ==
    /\ []C20_Outcomes
    /\ [][formula # "from_map" => (self' = self /\ formula' = formula)]_vars

C20_Witness ==
    /\ formula = "rate"
    /\ pc = "done"
    /\ other.pc = "done"
    /\ returned # {}
    /\ iter >= 2
    /\ other.iter = iter
    /\ result.tag = "Some"
\* The two criteria written out for RTOL = 1e-10 and ATOL = 1e-5. Magnitudes
\* stay below 1e10 units, so |lhs - rhs| / |rhs| <= 1e-10 leaves no room for a
\* difference of one unit: it holds when rhs is finite and not 0 and lhs
\* equals it.
RelativeCriterion(lhs, rhs) == IsFin(lhs) /\ IsFin(rhs) /\ ~IsZero(rhs) /\ lhs = rhs
AbsoluteCriterion(lhs, rhs) == FLe(FAbs(FSub(lhs, rhs)), Dec(1, 100000))

CloseIsEitherCriterion(lhs, rhs) ==
    float_close(lhs, rhs, RTOL, ATOL) <=> (RelativeCriterion(lhs, rhs) \/ AbsoluteCriterion(lhs, rhs))

CloseToZeroIsAbsolute(lhs) ==
    /\ ~RelativeCriterion(lhs, Zero)
    /\ float_close(lhs, Zero, RTOL, ATOL) <=> FLe(FAbs(lhs), Dec(1, 100000))

NewtonPoint(xv, f, d) == FSub(xv, FDiv(f, d))

At0(v, i) == v[i + 1]

\* sum over k = 0..n-2 of (k+1) * values[n-1-k] * x^k.
DerivativeAsClaimed(v, pt) ==
    FSum([j \in 1..(Len(v) - 1) |->
            FMul(FMul(Num(j), At0(v, Len(v) - 1 - (j - 1))), Powf(pt, Num(j - 1)))])

\* sum over k = 0..n-2 of (k+1) * values[n-2-k] * x^k.
DerivativeAsCoded(v, pt) ==
    FSum([j \in 1..(Len(v) - 1) |->
            FMul(FMul(Num(j), At0(v, Len(v) - 2 - (j - 1))), Powf(pt, Num(j - 1)))])

\* C22 as stated: the derivative of the Newton step is the sum over
\* k = 0..n-2 of (k+1) * values[n-1-k] * x^k.
C22_DerivativeFromLastValue ==
    (formula = "irr" /\ pc = "find_root") => dx(self.values, x) = DerivativeAsClaimed(self.values, x)

\* C22, amended: the derivative of the Newton step is the sum over
\* k = 0..n-2 of (k+1) * values[n-2-k] * x^k: the last value, the constant
\* term, does not enter it, and the first value does.
C22_DerivativeSkipsLastValue ==
    (formula = "irr" /\ pc = "find_root") => dx(self.values, x) = DerivativeAsCoded(self.values, x)

C22_Witness ==
    /\ formula = "irr"
    /\ pc = "find_root"
    /\ Len(self.values) = 3
    /\ iter >= 1
    /\ IsFin(dx(self.values, x))
    /\ dx(self.values, x) # DerivativeAsClaimed(self.values, x)

\* The polynomial with descending-power coefficients v, and its derivative.
PolyValue(v, pt) ==
    FSum([j \in 1..Len(v) |-> FMul(At0(v, Len(v) - 1 - (j - 1)), Powf(pt, Num(j - 1)))])

PolyDerivative(v, pt) ==
    FSum([k \in 1..(Len(v) - 1) |->
            FMul(FMul(Num(k), At0(v, Len(v) - 1 - k)), Powf(pt, Num(k - 1)))])

\* C23: fx(v, x) is the value at x of the polynomial whose descending-power
\* coefficients are v, and dx(v, x) is the derivative of that polynomial at
\* x; v = [1, 2, 3] and x = 2 give fx = 11 and dx = 6.
C23_FxDxArePolynomialAndDerivative ==
    /\ fx(<<Num(1), Num(2), Num(3)>>, Num(2)) = Num(11)
    /\ dx(<<Num(1), Num(2), Num(3)>>, Num(2)) = Num(6)
    /\ (formula = "irr" /\ pc = "find_root") =>
           /\ fx(self.values, x) = PolyValue(self.values, x)
           /\ dx(self.values, x) = PolyDerivative(self.values, x)

C23_Witness ==
    /\ formula = "irr"
    /\ pc = "find_root"
    /\ Len(self.values) = 3
    /\ iter >= 2
    /\ IsFin(fx(self.values, x))
    /\ ~IsZero(fx(self.values, x))
    /\ ~IsZero(dx(self.values, x))
    /\ fx(self.values, x) # fx_forward(self.values, x)
\* A pass of find_root's loop is about to run, and the derivative at x is
\* tolerance-close to 0.
DerivativeNearZero ==
    /\ formula = "irr"
    /\ pc = "find_root"
    /\ iter < FindRootMaxIter
    /\ float_close(dx(self.values, x), Zero, RTOL, ATOL)

\* C24: a pass of the IRR search whose derivative is tolerance-close to 0
\* replaces x by x + 1.0 and goes on to the next pass: it takes no Newton
\* step and returns nothing, so no returned root comes from such a pass.
C24_NearZeroDerivativeNudges ==
    [][/\ DerivativeNearZero => (x' = FAdd(x, One) /\ iter' = iter + 1 /\ pc' = pc /\ result' = result)
       /\ (formula = "irr" /\ pc = "find_root" /\ pc' = "done" /\ result'.tag = "Some") =>
              (~DerivativeNearZero /\ result'.val = FSub(NewtonPoint(x, fx(self.values, x), dx(self.values, x)), One))
      ]_vars

C24_Witness ==
    /\ formula = "irr"
    /\ pc = "find_root"
    /\ iter = 1
    /\ float_close(dx(self.values, FindRootStart), Zero, RTOL, ATOL)
    /\ x = FAdd(FindRootStart, One)
\* The number of steps the IRR call can still take: it is a natural number
\* and 0 only when the call has ended.
IrrRank ==
    IF pc = "start" THEN FindRootMaxIter + 2
    ELSE IF pc = "find_root" THEN FindRootMaxIter + 1 - iter
    ELSE 0

\* C25: the IRR search starts at x = -0.9 with the counter at 0; every pass
\* that does not return adds exactly 1 to the counter, the counter never
\* exceeds 100, and the search always ends: every step of the call lowers
\* IrrRank, which never goes below 0, and after pass 100 the next step ends
\* the call.
C25_FindRootBounded ==
    /\ [](formula = "irr" =>
            /\ pc \in {"start", "find_root", "done"}
            /\ iter \in 0..FindRootMaxIter
            /\ IrrRank >= 0
            /\ (pc = "find_root" /\ iter = 0) => x = Dec(-9, 10))
    /\ [][formula = "irr" =>
            /\ IrrRank' < IrrRank
            /\ (pc = "find_root" /\ pc' = "find_root") => iter' = iter + 1
            /\ (pc = "find_root" /\ iter = FindRootMaxIter) => pc' = "done"
            /\ (pc = "start" /\ pc' = "find_root") => (x' = Dec(-9, 10) /\ iter' = 0)
        ]_vars

C25_Witness ==
    /\ formula = "irr"
    /\ pc = "done"
    /\ iter = FindRootMaxIter
    /\ x # FindRootStart
    /\ IsFin(x)
\* The number of steps the Rate call can still take.
RateRank ==
    IF pc = "start" THEN self.maxiter + 2
    ELSE IF pc = "loop" THEN self.maxiter + 1 - iter
    ELSE 0

\* C26: the Rate iteration always ends: the counter never exceeds maxiter,
\* every pass of the loop adds 1 to it, and the loop is left exactly when
\* convergence was detected or the counter equals maxiter, whatever the
\* iterate is (NaN and infinities included); every step lowers RateRank.
C26_RateLoopBounded ==
    /\ [](formula = "rate" =>
            /\ pc \in {"start", "loop", "done"}
            /\ iter \in 0..self.maxiter
            /\ RateRank >= 0)
    /\ [][formula = "rate" =>
            /\ RateRank' < RateRank
            /\ (pc = "loop" /\ pc' = "loop") => iter' = iter + 1
            /\ pc = "loop" => (pc' = "done" <=> (close \/ iter = self.maxiter))
        ]_vars

C26_Witness ==
    /\ formula = "rate"
    /\ pc = "done"
    /\ iter = self.maxiter
    /\ iter >= 2
    /\ ~close
    /\ IsNaN(rn)
\* C27: in Rate, a pass whose derivative g'(rn) is 0, or whose iterate rn is
\* already NaN or infinite, produces a NaN or infinite iterate and fails the
\* test diff < tol; so the value stays in every later iterate, and get()
\* ends as "no solution" (None) when maxiter is reached.
C27_DegenerateIteratePropagates ==
    /\ [][(formula = "rate" /\ pc = "loop" /\ pc' = "loop" /\ (~IsFin(rn) \/ IsZero(RateGp(self, rn)))) =>
              (~IsFin(rn') /\ ~close')]_vars
    /\ [](formula = "rate" /\ pc = "done" /\ ~IsFin(rn) =>
              (result = None /\ ~close /\ iter = self.maxiter))

C27_Witness ==
    /\ formula = "rate"
    /\ pc = "done"
    /\ iter >= 3
    /\ ~IsFin(rn)
    /\ ~IsZero(self.guess)
    /\ IsZero(RateGp(self, self.guess))
    /\ result = None
\* C28: InterestPayment.get() never underflows the unsigned period index:
\* per - 1 is evaluated only when per >= 1, so for every per, 0 included,
\* no subtraction goes below 0 and none aborts; with per >= 1 the balance
\* is the future value over exactly per - 1 periods, with per = 0 nothing is
\* subtracted and the outcome is None.
C28_PeriodIndexNeverUnderflows ==
    (formula = "ipmt" /\ pc = "done") =>
        /\ \A i \in 1..Len(path) : path[i].a >= path[i].b
        /\ result # Panic
        /\ self.per = 0 => (path = <<>> /\ result = None)
        /\ self.per >= 1 =>
               /\ path = <<[op |-> "sub_u32", a |-> self.per, b |-> 1]>>
               /\ result = IpmtOfBalance(self,
                      FutureValue(self.rate, path[1].a - path[1].b,
                                  Payment(self.rate, self.nper, self.pv, self.fv, self.when),
                                  self.pv, self.when))

C28_Witness ==
    /\ formula = "ipmt"
    /\ pc = "done"
    /\ self.per = 0
    /\ self.nper >= 1
    /\ FNe(self.rate, Zero)
    /\ path = <<>>
    /\ result = None
\* The outcome of get() of the formula f on the object o.
OutcomeOf(f, o) ==
    CASE f = "fv" -> Ok(FutureValue(o.rate, o.nper, o.pmt, o.pv, o.when))
      [] f = "pv" -> Ok(PresentValue(o.rate, o.nper, o.pmt, o.fv, o.when))
      [] f = "pmt" -> Ok(Payment(o.rate, o.nper, o.pv, o.fv, o.when))
      [] f = "nper" -> NumberPeriod(o)

OtherWhen(w) == IF w = "End" THEN "Begin" ELSE "End"

\* C29: at rate = 0 the payment timing has no influence: FutureValue,
\* PresentValue, Payment and NumberPeriod return for an object what they
\* return for the same object with the other timing.
C29_TimingIrrelevantAtZeroRate ==
    (formula \in {"fv", "pv", "pmt", "nper"} /\ pc = "done" /\ FEq(self.rate, Zero)) =>
        /\ result = OutcomeOf(formula, self)
        /\ result = OutcomeOf(formula, [self EXCEPT !.when = OtherWhen(@)])

C29_Witness ==
    /\ formula = "fv"
    /\ pc = "done"
    /\ FEq(self.rate, Zero)
    /\ self.when = "Begin"
    /\ self.nper >= 1
    /\ ~IsZero(self.pmt)
    /\ IsFin(result.val)
    /\ ~IsZero(result.val)
    /\ result # OutcomeOf("fv", [self EXCEPT !.rate = Dec(1, 10)])
\* A pass of find_root is about to run whose derivative is not close to 0 and
\* whose Newton point is tolerance-close to x: the search converges.
SearchConverges ==
    /\ formula = "irr"
    /\ pc = "find_root"
    /\ iter < FindRootMaxIter
    /\ ~float_close(dx(self.values, x), Zero, RTOL, ATOL)
    /\ float_close(x, NewtonPoint(x, fx(self.values, x), dx(self.values, x)), RTOL, ATOL)

\* C30: whenever the IRR search converges to a root x1, get() returns exactly
\* x1 - 1, whatever the sign of x1: a root <= 0 comes back as a rate <= -1, it
\* is not discarded and not turned into absence.
C30_ConvergedRootIsReturnedUnfiltered ==
    [][SearchConverges =>
          /\ pc' = "done"
          /\ result' = Some(FSub(NewtonPoint(x, fx(self.values, x), dx(self.values, x)), One))
      ]_vars

C30_Witness ==
    /\ formula = "irr"
    /\ pc = "done"
    /\ iter >= 1
    /\ result.tag = "Some"
    /\ IsFin(result.val)
    /\ FLe(result.val, Num(-1))
====
